---- MODULE Spec2Model ----
(***************************************************************************)
(* Model of the journey planner page (the Home component), its Waypoint    *)
(* Store (the `waypoints` React state), the geocode batch (geocodeScenes), *)
(* the map initialisation effect, the render-from-state effect and the     *)
(* terrain toggle, and of the request filter at the edge (middleware).     *)
(*                                                                         *)
(* Strings are sequences of one-character strings, so that split and trim  *)
(* are computed as the code computes them.  React's updater queue is       *)
(* applied in order, so a state update is modelled at the moment it is     *)
(* enqueued; the commit (JSX list + effect) is the separate action         *)
(* renderFromState, which may be delayed.                                  *)
(***************************************************************************)
EXTENDS Integers, Sequences, FiniteSets, TLC

VARIABLES
  sceneText,      \* useState('')   : the scene names textarea
  waypoints,      \* useState([])   : the Waypoint Store
  isMounted,      \* the closure flag of the initialisation effect
  importPending,  \* import('maplibre-gl') has not resolved yet
  maplibreRef,    \* maplibreRef.current is set
  mapRef,         \* mapRef.current : "null" or "map"
  routeSource,    \* the 'route' source exists (the load handler has run)
  routeData,      \* coordinates of the route LineString
  markersRef,     \* markersRef.current : the markers placed on the map
  fitBoundsArg,   \* bounds of the last map.fitBounds call, or "none"
  listLen,        \* number of list items (with buttons) of the last commit
  renderPending,  \* waypoints changed since the last commit
  batches,        \* the geocodeScenes invocations of the run
  clicks,         \* number of map clicks so far
  terrainEnabled, \* useState(false) : the Terrain Flag
  mapTerrain,     \* the terrain of the map: "null" or the name of its source
  toggles,        \* number of Toggle Terrain clicks that reached the map
  edge,           \* the Edge Request Filter: the request in hand and its
                  \* response
  last            \* history: the last operation, its arguments (for a commit
                  \* the number of markers before it) and the batch it
                  \* ended, if any

vars == <<sceneText, waypoints, isMounted, importPending, maplibreRef, mapRef,
          routeSource, routeData, markersRef, fitBoundsArg, listLen,
          renderPending, batches, clicks, terrainEnabled, mapTerrain, toggles,
          edge, last>>

\* ---------------------------------------------------------------- bounds
\* Number of map clicks in a run of Spec.
MaxClicks == 1
\* Number of map clicks in a run of SpecStore.
MaxStoreClicks == 3
\* Number of clicks on "Geocode Scenes" in a run.
MaxBatches == 2
\* Number of clicks on "Toggle Terrain" that reach the map in a run.
MaxToggles == 3

\* ---------------------------------------------------------------- inputs
NL == "\n"
\* Texts the user can type into the scene textarea.
SceneTexts ==
  { <<>>,
    <<" ", NL, "\t">>,
    <<NL, "a", NL, NL, " ", "b", " ">> }

\* Coordinates a map click can report (e.lngLat), as <<lng, lat>>.
ClickCoords == { <<5, 10>>, <<-2, 3>> }

\* The first candidate the geocoder has for a name (its lat / lon strings).
Candidate(name) ==
  IF name = <<"a">> THEN [lat |-> <<"4", "8">>, lon |-> <<"2">>]
  ELSE [lat |-> <<"-", "3">>, lon |-> <<"7", "4">>]

\* How the lookup of a name can end: fetch() rejects; the response is not ok;
\* res.json() rejects; it yields a value that is not an array, an empty
\* array, or an array whose first element is a candidate.
LookupOutcomes(name) ==
  { [kind |-> "fetchReject", data |-> <<>>],
    [kind |-> "notOk", data |-> <<>>],
    [kind |-> "jsonReject", data |-> <<>>],
    [kind |-> "notArray", data |-> <<>>],
    [kind |-> "array", data |-> <<>>],
    [kind |-> "array", data |-> <<Candidate(name)>>] }

\* String(undefined): what parseFloat reads when data[0] lacks the field.
MissingField == <<"u", "n", "d", "e", "f", "i", "n", "e", "d">>

\* First candidates with a latitude out of range, a longitude that is no
\* number, and a latitude missing next to a longitude out of range.
MalformedCandidates ==
  { [lat |-> <<"9", "1">>, lon |-> <<"2">>],
    [lat |-> <<"4", "8">>, lon |-> <<"x">>],
    [lat |-> MissingField, lon |-> <<"-", "1", "8", "1">>] }

\* Answers of the geocoder whose first candidate is malformed.
MalformedOutcomes ==
  { [kind |-> "array", data |-> <<c>>] : c \in MalformedCandidates }

\* ---------------------------------------------------------------- strings
IsSpace(c) == c \in { " ", NL, "\t" }

RECURSIVE TrimStart(_)
TrimStart(s) ==
  IF s = <<>> THEN <<>>
  ELSE IF IsSpace(Head(s)) THEN TrimStart(Tail(s)) ELSE s

RECURSIVE TrimEnd(_)
TrimEnd(s) ==
  IF s = <<>> THEN <<>>
  ELSE IF IsSpace(s[Len(s)]) THEN TrimEnd(SubSeq(s, 1, Len(s) - 1)) ELSE s

\* String.prototype.trim
Trim(s) == TrimEnd(TrimStart(s))

\* String.prototype.split(/\n+/): pieces between maximal runs of newlines; a
\* leading or trailing run leaves an empty piece, '' gives [''].
RECURSIVE SplitFrom(_, _, _, _)
SplitFrom(s, i, cur, inRun) ==
  IF i > Len(s) THEN <<cur>>
  ELSE IF s[i] = NL
       THEN IF inRun THEN SplitFrom(s, i + 1, cur, TRUE)
            ELSE <<cur>> \o SplitFrom(s, i + 1, <<>>, TRUE)
       ELSE SplitFrom(s, i + 1, Append(cur, s[i]), FALSE)

SplitLines(s) == SplitFrom(s, 1, <<>>, FALSE)

\* Mutant of FilterNonEmpty: the filter is missing.
FilterNonEmptyKeepsAll(xs) == xs

\* Array.prototype.filter(Boolean) on strings: drops the empty ones.
FilterNonEmpty(xs) == SelectSeq(xs, LAMBDA x : x # <<>>)

\* Mutant of MapTrim: the trim is missing.
MapTrimNoTrim(xs) == xs

\* Array.prototype.map((s) => s.trim())
MapTrim(xs) == [k \in 1..Len(xs) |-> Trim(xs[k])]

\* const names = sceneText.split(/\n+/).map((s) => s.trim()).filter(Boolean)
ParseNames(text) == FilterNonEmpty(MapTrim(SplitLines(text)))

Digit(c) ==
  CASE c = "0" -> 0 [] c = "1" -> 1 [] c = "2" -> 2 [] c = "3" -> 3
    [] c = "4" -> 4 [] c = "5" -> 5 [] c = "6" -> 6 [] c = "7" -> 7
    [] c = "8" -> 8 [] c = "9" -> 9 [] OTHER -> -1

RECURSIVE ParseDigits(_, _)
ParseDigits(s, acc) ==
  IF s = <<>> \/ Digit(Head(s)) < 0 THEN acc
  ELSE ParseDigits(Tail(s), 10 * acc + Digit(Head(s)))

\* parseFloat on the strings of this model (whole numbers): leading white
\* space skipped, optional sign, the longest digit prefix; "NaN" without one.
ParseFloat(str) ==
  LET s == TrimStart(str)
      neg == s # <<>> /\ Head(s) = "-"
      body == IF s # <<>> /\ Head(s) \in {"-", "+"} THEN Tail(s) ELSE s
  IN IF body = <<>> \/ Digit(Head(body)) < 0 THEN "NaN"
     ELSE IF neg THEN 0 - ParseDigits(body, 0) ELSE ParseDigits(body, 0)

DigitChar(d) ==
  CASE d = 0 -> "0" [] d = 1 -> "1" [] d = 2 -> "2" [] d = 3 -> "3"
    [] d = 4 -> "4" [] d = 5 -> "5" [] d = 6 -> "6" [] d = 7 -> "7"
    [] d = 8 -> "8" [] OTHER -> "9"

\* String(n) / template interpolation of a non-negative integer.
RECURSIVE NumberToString(_)
NumberToString(n) ==
  IF n < 10 THEN <<DigitChar(n)>>
  ELSE Append(NumberToString(n \div 10), DigitChar(n % 10))

\* ---------------------------------------------------------------- Store
\* The value JavaScript leaves in an array slot read past the end.
Undefined == [undefined |-> TRUE]

WaypointPrefix == <<"W", "a", "y", "p", "o", "i", "n", "t", " ">>

\* Mutant of ClickUpdater: the name counts from the current length.
ClickUpdaterOffByOne(prevWps, lng, lat) ==
  LET newName == WaypointPrefix \o NumberToString(Len(prevWps))
  IN Append(prevWps, [name |-> newName, coord |-> <<lng, lat>>])

\* Updater of the map click handler.
ClickUpdater(prevWps, lng, lat) ==
  LET newName == WaypointPrefix \o NumberToString(Len(prevWps) + 1)
  IN Append(prevWps, [name |-> newName, coord |-> <<lng, lat>>])

\* reordered[k] for a 0-based k, as JavaScript reads it.
At(arr, k) == IF k >= 0 /\ k < Len(arr) THEN arr[k + 1] ELSE Undefined

\* Mutant of MoveUpdater: the guard checks the lower end only.
MoveUpdaterNoUpperGuard(prevWps, index, direction) ==
  LET newIndex == index + direction
      top == IF index > newIndex THEN index ELSE newIndex
      n == IF top + 1 > Len(prevWps) THEN top + 1 ELSE Len(prevWps)
  IN IF newIndex < 0 THEN prevWps
     ELSE [k \in 1..n |->
             IF k - 1 = index THEN At(prevWps, newIndex)
             ELSE IF k - 1 = newIndex THEN At(prevWps, index)
             ELSE At(prevWps, k - 1)]

\* Mutant of MoveUpdater: the whole list is reversed.
MoveUpdaterReverses(prevWps, index, direction) ==
  LET newIndex == index + direction
  IN IF newIndex < 0 \/ newIndex >= Len(prevWps) THEN prevWps
     ELSE [k \in 1..Len(prevWps) |-> prevWps[Len(prevWps) + 1 - k]]

\* Mutant of MoveUpdater: the element is copied to the target, not exchanged.
MoveUpdaterCopies(prevWps, index, direction) ==
  LET newIndex == index + direction
  IN IF newIndex < 0 \/ newIndex >= Len(prevWps) THEN prevWps
     ELSE [k \in 1..Len(prevWps) |->
             IF k - 1 = newIndex THEN At(prevWps, index) ELSE prevWps[k]]

\* Updater of moveWaypoint; index and newIndex are 0-based as in the code.
\* Writing past the end of the copy extends it.
MoveUpdater(prevWps, index, direction) ==
  LET newIndex == index + direction
      n == IF index + 1 > Len(prevWps) THEN index + 1 ELSE Len(prevWps)
  IN IF newIndex < 0 \/ newIndex >= Len(prevWps) THEN prevWps
     ELSE [k \in 1..n |->
             IF k - 1 = index THEN At(prevWps, newIndex)
             ELSE IF k - 1 = newIndex THEN At(prevWps, index)
             ELSE At(prevWps, k - 1)]

\* ---------------------------------------------------------------- geocode
\* The bounding box loop of geocodeScenes: <<<<minLon, minLat>>, <<maxLon, maxLat>>>>.
RECURSIVE BoxScan(_, _, _)
BoxScan(wps, k, box) ==
  IF k > Len(wps) THEN box
  ELSE LET lon == wps[k].coord[1]
           lat == wps[k].coord[2]
           minLon == IF lon < box[1][1] THEN lon ELSE box[1][1]
           maxLon == IF lon > box[2][1] THEN lon ELSE box[2][1]
           minLat == IF lat < box[1][2] THEN lat ELSE box[1][2]
           maxLat == IF lat > box[2][2] THEN lat ELSE box[2][2]
       IN BoxScan(wps, k + 1, <<<<minLon, minLat>>, <<maxLon, maxLat>>>>)

\* Mutant of BoundingBox: the first and the last coordinate as corners.
BoundingBoxOfEnds(wps) == <<wps[1].coord, wps[Len(wps)].coord>>

\* The bounds geocodeScenes passes to map.fitBounds.
BoundingBox(wps) == BoxScan(wps, 1, <<wps[1].coord, wps[1].coord>>)

\* No invocation of geocodeScenes (a free slot of `batches`).
\*   text         the scene text the invocation was started on
\*   names        const names
\*   idx          position of the loop in names (1-based)
\*   pc           "fetch": suspended on the lookup of names[idx];
\*                "done": returned
\*   newWaypoints const newWaypoints
\*   alerts       the alert() calls made so far
\*   issued       the names fetch() was called for so far
\*   results      history: what the provider answered to each completed lookup
\*   writes       the setWaypoints calls made so far
Idle ==
  [text |-> <<>>, names |-> <<>>, idx |-> 0, pc |-> "idle", newWaypoints |-> <<>>,
   alerts |-> <<>>, issued |-> <<>>, results |-> <<>>, writes |-> 0]

\* The slot of an invocation that has returned.
Returned == [Idle EXCEPT !.pc = "done"]

\* The first request: fetch() for the first name.
IssueFirst(text, names) ==
  [Idle EXCEPT !.text = text, !.names = names, !.idx = 1, !.pc = "fetch",
               !.issued = <<names[1]>>]

\* alert('Please enter one or more scene names to geocode.'); return
FailFast(text) ==
  [Idle EXCEPT !.text = text, !.pc = "done",
               !.alerts = <<[kind |-> "empty", name |-> <<>>]>>]

\* The start of geocodeScenes on the scene text: parse, fail fast on no name,
\* else start the loop and suspend on the first fetch.
StartBatch(text) ==
  LET names == ParseNames(text)
  IN IF Len(names) = 0 THEN FailFast(text) ELSE IssueFirst(text, names)

\* alert(`Could not find location: ${name}`) / alert(`Error geocoding ...`)
Alert(rec, kind) ==
  [rec EXCEPT !.alerts = Append(@, [kind |-> kind, name |-> rec.names[rec.idx]])]

\* Mutant of Push: the waypoint is put in front (unshift).
PushFront(rec, cand) ==
  [rec EXCEPT !.newWaypoints =
                 <<[name |-> rec.names[rec.idx],
                    coord |-> <<ParseFloat(cand.lon), ParseFloat(cand.lat)>>]>> \o @]

\* newWaypoints.push({ name, coord: [parseFloat(lon), parseFloat(lat)] })
Push(rec, cand) ==
  [rec EXCEPT !.newWaypoints =
                 Append(@, [name |-> rec.names[rec.idx],
                            coord |-> <<ParseFloat(cand.lon), ParseFloat(cand.lat)>>])]

\* What the provider answered: "hit" for one or more candidates, "miss" for a
\* response without one, "error" for a rejection or a response that is not ok.
Answer(out) ==
  IF out.kind \in {"fetchReject", "notOk", "jsonReject"} THEN "error"
  ELSE IF out.kind = "array" /\ Len(out.data) > 0 THEN "hit"
  ELSE "miss"

\* History: the answer to the lookup of names[idx] is recorded.
Observe(rec, out) == [rec EXCEPT !.results = Append(@, Answer(out))]

\* The body of the loop once the lookup has ended with `out`: a rejection
\* and a response that is not ok end in the catch block.
HandleLookup(rec, out) ==
  IF out.kind \in {"fetchReject", "notOk", "jsonReject"} THEN Alert(rec, "error")
  ELSE IF out.kind = "array" /\ Len(out.data) > 0 THEN Push(rec, out.data[1])
  ELSE Alert(rec, "notfound")

\* The loop head for the next name: its request is issued.
IssueNext(rec) ==
  [rec EXCEPT !.idx = @ + 1, !.pc = "fetch",
              !.issued = Append(@, rec.names[rec.idx + 1])]

\* True when the name just handled was the last one of the batch.
LastName(rec) == rec.idx >= Len(rec.names)

\* if (newWaypoints.length > 0)
HasResult(rec) == Len(rec.newWaypoints) > 0

\* Mutant of AfterName: the results so far are stored after every name.
AfterNameStreams(rec) ==
  IF ~LastName(rec)
  THEN [IssueNext(rec) EXCEPT !.writes = IF HasResult(rec) THEN @ + 1 ELSE @]
  ELSE [rec EXCEPT !.pc = "done", !.writes = IF HasResult(rec) THEN @ + 1 ELSE @]

\* The batch after the loop body of the name at rec.idx: suspended on the
\* next request, or past the loop.
AfterName(rec) ==
  IF ~LastName(rec) THEN IssueNext(rec)
  ELSE [rec EXCEPT !.pc = "done", !.writes = IF HasResult(rec) THEN @ + 1 ELSE @]

\* Mutant of Resume: the Store is replaced past the loop also when no name
\* resolved.
ResumeAlwaysStores(b, rec, op) ==
  LET r == AfterName(rec)
  IN /\ batches' = [batches EXCEPT ![b] = IF r.pc = "done" THEN Returned ELSE r]
     /\ IF r.pc = "done"
        THEN /\ IF isMounted
                THEN waypoints' = r.newWaypoints /\ renderPending' = TRUE
                ELSE UNCHANGED <<waypoints, renderPending>>
             /\ fitBoundsArg' = IF mapRef # "null" /\ r.writes > 0
                                THEN BoundingBox(r.newWaypoints)
                                ELSE fitBoundsArg
        ELSE UNCHANGED <<waypoints, renderPending, fitBoundsArg>>
     /\ last' = [op |-> op, a |-> b, b |-> 0,
                 rec |-> IF r.pc = "done" THEN r ELSE Idle]

\* The rest of geocodeScenes once batch b has become `rec` by handling a
\* name: the Store and the map change only past the loop, on a result.
Resume(b, rec, op) ==
  LET r == AfterName(rec)
  IN /\ batches' = [batches EXCEPT ![b] = IF r.pc = "done" THEN Returned ELSE r]
     /\ IF r.writes > 0
        THEN /\ IF isMounted
                THEN waypoints' = r.newWaypoints /\ renderPending' = TRUE
                ELSE UNCHANGED <<waypoints, renderPending>>
             /\ fitBoundsArg' = IF mapRef # "null" THEN BoundingBox(r.newWaypoints)
                                ELSE fitBoundsArg
        ELSE UNCHANGED <<waypoints, renderPending, fitBoundsArg>>
     /\ last' = [op |-> op, a |-> b, b |-> 0,
                 rec |-> IF r.pc = "done" THEN r ELSE Idle]

\* onChange of the scene textarea.
setSceneText(t) ==
  /\ isMounted
  /\ t # sceneText
  /\ sceneText' = t
  /\ last' = [op |-> "setSceneText", a |-> 0, b |-> 0, rec |-> Idle]
  /\ UNCHANGED <<waypoints, isMounted, importPending, maplibreRef, mapRef,
                 routeSource, routeData, markersRef, fitBoundsArg, listLen,
                 renderPending, batches, clicks>>
  /\ UNCHANGED <<terrainEnabled, mapTerrain, toggles, edge>>

\* Click on "Geocode Scenes"; the invocation takes the first free slot.
geocodeScenes(b) ==
  /\ isMounted
  /\ batches[b] = Idle
  /\ \A c \in 1..(b - 1) : batches[c] # Idle
  /\ LET r == StartBatch(sceneText)
     IN /\ batches' = [batches EXCEPT ![b] = IF r.pc = "done" THEN Returned ELSE r]
        /\ last' = [op |-> "geocodeScenes", a |-> b, b |-> 0,
                    rec |-> IF r.pc = "done" THEN r ELSE Idle]
  /\ UNCHANGED <<sceneText, waypoints, isMounted, importPending, maplibreRef,
                 mapRef, routeSource, routeData, markersRef, fitBoundsArg,
                 listLen, renderPending, clicks>>
  /\ UNCHANGED <<terrainEnabled, mapTerrain, toggles, edge>>

\* The lookup of batch b settles: `await fetch(url)` and, on an ok response,
\* `await res.json()`.  Nothing but the position of the batch changes between
\* the two awaits, so they are one step.
lookupSettled(b) ==
  /\ batches[b].pc = "fetch"
  /\ \E out \in LookupOutcomes(batches[b].names[batches[b].idx]) :
       Resume(b, HandleLookup(Observe(batches[b], out), out), "lookupSettled")
  /\ UNCHANGED <<sceneText, isMounted, importPending, maplibreRef, mapRef,
                 routeSource, routeData, markersRef, listLen, clicks>>
  /\ UNCHANGED <<terrainEnabled, mapTerrain, toggles, edge>>

\* The lookup of batch b settles with a first candidate that is malformed.
lookupSettledMalformed(b) ==
  /\ batches[b].pc = "fetch"
  /\ \E out \in MalformedOutcomes :
       Resume(b, HandleLookup(Observe(batches[b], out), out), "lookupSettled")
  /\ UNCHANGED <<sceneText, isMounted, importPending, maplibreRef, mapRef,
                 routeSource, routeData, markersRef, listLen, clicks>>
  /\ UNCHANGED <<terrainEnabled, mapTerrain, toggles, edge>>

\* ---------------------------------------------------------------- map
\* No terrain: map.setTerrain(null).
NoTerrain == "null"

\* The terrain of the style the map is created with, and of
\* map.setTerrain({ source: 'terrain', exaggeration: 1.5 }): the name of the
\* elevation source.
StyleTerrain == "terrain"

\* import('maplibre-gl') resolves: nothing when the view is already disposed,
\* else the library and the map instance are stored and the click handler
\* is bound.
importResolved ==
  /\ importPending
  /\ importPending' = FALSE
  /\ IF isMounted
     THEN maplibreRef' = TRUE /\ mapRef' = "map" /\ mapTerrain' = StyleTerrain
     ELSE UNCHANGED <<maplibreRef, mapRef, mapTerrain>>
  /\ last' = [op |-> "importResolved", a |-> 0, b |-> 0, rec |-> Idle]
  /\ UNCHANGED <<sceneText, waypoints, isMounted, routeSource, routeData,
                 markersRef, fitBoundsArg, listLen, renderPending, batches, clicks>>
  /\ UNCHANGED <<terrainEnabled, toggles, edge>>

\* The map's 'load' event: the route source starts with no coordinates.
mapLoad ==
  /\ mapRef = "map"
  /\ ~routeSource
  /\ routeSource' = TRUE
  /\ routeData' = <<>>
  /\ last' = [op |-> "mapLoad", a |-> 0, b |-> 0, rec |-> Idle]
  /\ UNCHANGED <<sceneText, waypoints, isMounted, importPending, maplibreRef,
                 mapRef, markersRef, fitBoundsArg, listLen, renderPending,
                 batches, clicks>>
  /\ UNCHANGED <<terrainEnabled, mapTerrain, toggles, edge>>

\* The map's 'click' event at coordinate c = <<lng, lat>>.
mapClick(c, limit) ==
  /\ mapRef = "map"
  /\ clicks < limit
  /\ clicks' = clicks + 1
  /\ waypoints' = ClickUpdater(waypoints, c[1], c[2])
  /\ renderPending' = TRUE
  /\ last' = [op |-> "mapClick", a |-> 0, b |-> 0, rec |-> Idle]
  /\ UNCHANGED <<sceneText, isMounted, importPending, maplibreRef, mapRef,
                 routeSource, routeData, markersRef, fitBoundsArg, listLen,
                 batches>>
  /\ UNCHANGED <<terrainEnabled, mapTerrain, toggles, edge>>

\* The guard of the moveWaypoint updater is passed.
MovePasses(prevWps, index, direction) ==
  ~(index + direction < 0 \/ index + direction >= Len(prevWps))

\* Click on the up (-1) or down (+1) button of list item `index`.  The buttons
\* are those of the last commit: one pair per item, up disabled on the first
\* item and down on the last one.
moveWaypoint(index, direction) ==
  /\ isMounted
  /\ index \in 0..(listLen - 1)
  /\ direction \in {-1, 1}
  /\ ~(direction = -1 /\ index = 0)
  /\ ~(direction = 1 /\ index = listLen - 1)
  /\ waypoints' = MoveUpdater(waypoints, index, direction)
  /\ renderPending' = (renderPending \/ MovePasses(waypoints, index, direction))
  /\ last' = [op |-> "moveWaypoint", a |-> index, b |-> direction, rec |-> Idle]
  /\ UNCHANGED <<sceneText, isMounted, importPending, maplibreRef, mapRef,
                 routeSource, routeData, markersRef, fitBoundsArg, listLen,
                 batches, clicks>>
  /\ UNCHANGED <<terrainEnabled, mapTerrain, toggles, edge>>

\* The value clearRoute stores.
ClearValue == <<>>

\* Click on "Clear Route".
clearRoute ==
  /\ isMounted
  /\ waypoints' = ClearValue
  /\ renderPending' = TRUE
  /\ last' = [op |-> "clearRoute", a |-> 0, b |-> 0, rec |-> Idle]
  /\ UNCHANGED <<sceneText, isMounted, importPending, maplibreRef, mapRef,
                 routeSource, routeData, markersRef, fitBoundsArg, listLen,
                 batches, clicks>>
  /\ UNCHANGED <<terrainEnabled, mapTerrain, toggles, edge>>

\* The markers the effect creates: one per waypoint, labelled index + 1.
RenderMarkers(wps) ==
  [k \in 1..Len(wps) |-> [label |-> NumberToString(k), coord |-> wps[k].coord]]

\* Mutant of EffectMarkers: the old markers are not removed.
EffectMarkersKeepsOld(old, lib, wps) ==
  IF lib THEN old \o RenderMarkers(wps) ELSE old

\* markersRef.current after the effect has run on a map.
EffectMarkers(old, lib, wps) == IF lib THEN RenderMarkers(wps) ELSE <<>>

\* waypoints.map((wp) => wp.coord)
RouteCoords(wps) == [k \in 1..Len(wps) |-> wps[k].coord]

\* Mutant of EffectRoute: an empty Store leaves the line as it is.
EffectRouteSkipsEmpty(old, hasSource, wps) ==
  IF hasSource /\ Len(wps) > 0 THEN RouteCoords(wps) ELSE old

\* The data of the route source after the effect has run on a map.
EffectRoute(old, hasSource, wps) == IF hasSource THEN RouteCoords(wps) ELSE old

\* The list JSX and the effect read a field of every element.
RenderThrows(wps) == \E k \in 1..Len(wps) : "name" \notin DOMAIN wps[k]

\* The commit that follows a change of `waypoints`: the list is rendered and
\* the [waypoints] effect runs.  A throw while rendering unmounts the tree,
\* which runs the cleanup of the initialisation effect.
renderFromState ==
  /\ isMounted
  /\ renderPending
  /\ renderPending' = FALSE
  /\ IF RenderThrows(waypoints)
     THEN /\ isMounted' = FALSE
          /\ mapRef' = "null"
          /\ UNCHANGED <<listLen, markersRef, routeData>>
     ELSE /\ listLen' = Len(waypoints)
          /\ markersRef' = IF mapRef = "null" THEN markersRef
                           ELSE EffectMarkers(markersRef, maplibreRef, waypoints)
          /\ routeData' = IF mapRef = "null" THEN routeData
                          ELSE EffectRoute(routeData, routeSource, waypoints)
          /\ UNCHANGED <<isMounted, mapRef>>
  /\ last' = [op |-> "render", a |-> Len(markersRef), b |-> 0, rec |-> Idle]
  /\ UNCHANGED <<sceneText, waypoints, importPending, maplibreRef, routeSource,
                 fitBoundsArg, batches, clicks>>
  /\ UNCHANGED <<terrainEnabled, mapTerrain, toggles, edge>>

\* Mutant of unmount: the map is neither removed nor released.
unmountKeepsMap ==
  /\ isMounted
  /\ isMounted' = FALSE
  /\ last' = [op |-> "unmount", a |-> 0, b |-> 0, rec |-> Idle]
  /\ UNCHANGED <<sceneText, waypoints, importPending, maplibreRef, mapRef,
                 routeSource, routeData, markersRef, fitBoundsArg, listLen,
                 renderPending, batches, clicks>>
  /\ UNCHANGED <<terrainEnabled, mapTerrain, toggles, edge>>

\* The markers on a map that is displayed: map.remove() takes the map's
\* container, and with it the marker elements, out of the document.
AttachedMarkers == IF mapRef = "null" THEN <<>> ELSE markersRef

\* The view is disposed: the cleanup of the initialisation effect.
unmount ==
  /\ isMounted
  /\ isMounted' = FALSE
  /\ mapRef' = "null"
  /\ last' = [op |-> "unmount", a |-> 0, b |-> 0, rec |-> Idle]
  /\ UNCHANGED <<sceneText, waypoints, importPending, maplibreRef, routeSource,
                 routeData, markersRef, fitBoundsArg, listLen, renderPending,
                 batches, clicks>>
  /\ UNCHANGED <<terrainEnabled, mapTerrain, toggles, edge>>

\* ---------------------------------------------------------------- terrain
\* Mutant of ToggledTerrain: the flag is read the wrong way round.
ToggledTerrainInverted(enabled) == IF enabled THEN StyleTerrain ELSE NoTerrain

\* The terrain toggleTerrain hands to map.setTerrain, from the flag:
\* null when enabled, the elevation source when not.
ToggledTerrain(enabled) == IF enabled THEN NoTerrain ELSE StyleTerrain

\* Click on "Toggle Terrain": nothing without a map, else setTerrain and
\* setTerrainEnabled(!terrainEnabled).
toggleTerrain ==
  /\ isMounted
  /\ toggles < MaxToggles
  /\ IF mapRef = "null"
     THEN UNCHANGED <<terrainEnabled, mapTerrain, toggles>>
     ELSE /\ mapTerrain' = ToggledTerrain(terrainEnabled)
          /\ terrainEnabled' = ~terrainEnabled
          /\ toggles' = toggles + 1
  /\ last' = [op |-> "toggleTerrain", a |-> 0, b |-> 0, rec |-> Idle]
  /\ UNCHANGED <<sceneText, waypoints, isMounted, importPending, maplibreRef,
                 mapRef, routeSource, routeData, markersRef, fitBoundsArg,
                 listLen, renderPending, batches, clicks, edge>>

\* ---------------------------------------------------------------- edge filter
\* JavaScript values of the filter: null, and a string as its characters
\* (undefined is Undefined).
Null == [null |-> TRUE]
Str(chars) == [str |-> chars]

\* a || b
Truthy(x) == "str" \in DOMAIN x /\ x.str # <<>>
Or(x, y) == IF Truthy(x) THEN x ELSE y

\* s.split(',')[0]: the characters before the first comma.
RECURSIVE FirstField(_)
FirstField(s) ==
  IF s = <<>> \/ Head(s) = "," THEN <<>>
  ELSE <<Head(s)>> \o FirstField(Tail(s))

\* req.headers.get('x-forwarded-for')?.split(',')[0]?.trim()
ForwardedFor(h) ==
  IF "str" \in DOMAIN h THEN Str(Trim(FirstField(h.str))) ELSE Undefined

\* getClientInfo(req): the client IP and the geo metadata of the headers.
getClientInfo(req) ==
  [ip |-> Or(Or(ForwardedFor(req.xff), req.realIp), Undefined),
   geo |-> [city |-> Or(req.city, Undefined),
            country |-> Or(req.country, Undefined),
            region |-> Or(req.region, Undefined),
            latitude |-> Or(req.latitude, Undefined),
            longitude |-> Or(req.longitude, Undefined)]]

\* Values of the x-forwarded-for header: absent, empty, one address, a
\* list, and lists with an empty or blank first entry.
ForwardedForValues ==
  { Null, Str(<<>>), Str(<<"1">>), Str(<<" ", "1", ",", " ", "2">>),
    Str(<<",", "2">>), Str(<<" ", ",">>) }

\* Values of the x-real-ip header.
RealIpValues == { Null, Str(<<>>), Str(<<"9">>) }

\* Geo headers: none, all, a city only, empty values, and a latitude and
\* longitude that are no numbers.
GeoValues ==
  { [city |-> Null, country |-> Null, region |-> Null, latitude |-> Null,
     longitude |-> Null],
    [city |-> Str(<<"P">>), country |-> Str(<<"F">>), region |-> Str(<<"I">>),
     latitude |-> Str(<<"4", "8">>), longitude |-> Str(<<"2">>)],
    [city |-> Str(<<"P">>), country |-> Null, region |-> Null,
     latitude |-> Null, longitude |-> Null],
    [city |-> Str(<<>>), country |-> Str(<<>>), region |-> Str(<<>>),
     latitude |-> Str(<<>>), longitude |-> Str(<<>>)],
    [city |-> Null, country |-> Str(<<"F">>), region |-> Null,
     latitude |-> Str(<<"x">>), longitude |-> Str(<<"-", ",">>)] }

\* The inbound requests: every combination of the header values.
Requests ==
  { [xff |-> x, realIp |-> r, city |-> g.city, country |-> g.country,
     region |-> g.region, latitude |-> g.latitude, longitude |-> g.longitude] :
      x \in ForwardedForValues, r \in RealIpValues, g \in GeoValues }

\* What the pass-through call in the try block can do: return, throw an
\* Error, or throw a value that is no Error.
NoFault == [thrown |-> FALSE]
Faults ==
  { NoFault,
    [thrown |-> TRUE, isError |-> TRUE, message |-> <<"m">>],
    [thrown |-> TRUE, isError |-> FALSE, message |-> <<"s">>] }

\* NextResponse.next(): the inbound request goes on as it is.
PassThrough(req) == [kind |-> "next", request |-> req, headers |-> {}]

\* err instanceof Error ? err.message : String(err)
ErrorText(fault) == fault.message

\* Mutant of Middleware: no catch block.
MiddlewareNoCatch(req, fault) ==
  IF ~fault.thrown THEN PassThrough(req)
  ELSE [kind |-> "error", request |-> req, headers |-> {}]

\* middleware(_req) of src/middleware.ts: the pass-through, and in the catch
\* block the pass-through with the x-middleware-error header.
Middleware(req, fault) ==
  IF ~fault.thrown THEN PassThrough(req)
  ELSE [PassThrough(req) EXCEPT
          !.headers = {[name |-> "x-middleware-error", value |-> ErrorText(fault)]}]

\* No request in hand.
NoRequest == [stage |-> "idle"]

\* A request matched by config.matcher reaches the filter.
requestArrives(r) ==
  /\ edge.stage \in {"idle", "responded"}
  /\ edge' = [stage |-> "received", req |-> r]
  /\ UNCHANGED <<sceneText, waypoints, isMounted, importPending, maplibreRef,
                 mapRef, routeSource, routeData, markersRef, fitBoundsArg,
                 listLen, renderPending, batches, clicks, terrainEnabled,
                 mapTerrain, toggles, last>>

\* The filter of src/middleware.ts handles the request in hand.
middleware ==
  /\ edge.stage = "received"
  /\ \E fault \in Faults :
       edge' = [stage |-> "responded", req |-> edge.req,
                info |-> Undefined, res |-> Middleware(edge.req, fault)]
  /\ UNCHANGED <<sceneText, waypoints, isMounted, importPending, maplibreRef,
                 mapRef, routeSource, routeData, markersRef, fitBoundsArg,
                 listLen, renderPending, batches, clicks, terrainEnabled,
                 mapTerrain, toggles, last>>

\* The filter revision that reads the client headers handles the request
\* in hand: getClientInfo, then the pass-through.
middlewareClientInfo ==
  /\ edge.stage = "received"
  /\ edge' = [stage |-> "responded", req |-> edge.req,
              info |-> getClientInfo(edge.req), res |-> PassThrough(edge.req)]
  /\ UNCHANGED <<sceneText, waypoints, isMounted, importPending, maplibreRef,
                 mapRef, routeSource, routeData, markersRef, fitBoundsArg,
                 listLen, renderPending, batches, clicks, terrainEnabled,
                 mapTerrain, toggles, last>>

\* ---------------------------------------------------------------- system
Init ==
  /\ sceneText = <<>>
  /\ waypoints = <<>>
  /\ isMounted = TRUE
  /\ importPending = TRUE
  /\ maplibreRef = FALSE
  /\ mapRef = "null"
  /\ routeSource = FALSE
  /\ routeData = <<>>
  /\ markersRef = <<>>
  /\ fitBoundsArg = "none"
  /\ listLen = 0
  /\ renderPending = FALSE
  /\ batches = [b \in 1..MaxBatches |-> Idle]
  /\ clicks = 0
  /\ terrainEnabled = FALSE
  /\ mapTerrain = NoTerrain
  /\ toggles = 0
  /\ edge = NoRequest
  /\ last = [op |-> "init", a |-> 0, b |-> 0, rec |-> Idle]

Next ==
  \/ \E t \in SceneTexts : setSceneText(t)
  \/ \E b \in 1..MaxBatches : geocodeScenes(b)
  \/ \E b \in 1..MaxBatches : lookupSettled(b)
  \/ importResolved
  \/ mapLoad
  \/ \E c \in ClickCoords : mapClick(c, MaxClicks)
  \/ \E index \in 0..(listLen - 1), direction \in {-1, 1} :
       moveWaypoint(index, direction)
  \/ clearRoute
  \/ renderFromState
  \/ unmount

Spec == Init /\ [][Next]_vars

\* The Store and the map without the geocoder: clicks, reorders, clears and
\* commits.
NextStore ==
  \/ importResolved
  \/ mapLoad
  \/ \E c \in ClickCoords : mapClick(c, MaxStoreClicks)
  \/ \E index \in 0..(listLen - 1), direction \in {-1, 1} :
       moveWaypoint(index, direction)
  \/ clearRoute
  \/ renderFromState
  \/ unmount

SpecStore == Init /\ [][NextStore]_vars

\* The geocoder with well-formed and malformed answers, before the map
\* exists.
NextGeocoder ==
  \/ \E t \in SceneTexts : setSceneText(t)
  \/ \E b \in 1..MaxBatches : geocodeScenes(b)
  \/ \E b \in 1..MaxBatches : lookupSettled(b)
  \/ \E b \in 1..MaxBatches : lookupSettledMalformed(b)
  \/ renderFromState
  \/ unmount

SpecGeocoder == Init /\ [][NextGeocoder]_vars

\* The map and its terrain: creation, clicks, clears, commits and toggles.
NextTerrain ==
  \/ importResolved
  \/ mapLoad
  \/ \E c \in ClickCoords : mapClick(c, MaxClicks)
  \/ clearRoute
  \/ renderFromState
  \/ toggleTerrain
  \/ unmount

SpecTerrain == Init /\ [][NextTerrain]_vars

\* The Edge Request Filter: requests arrive and are handled one at a time.
NextEdge ==
  \/ \E r \in Requests : requestArrives(r)
  \/ middleware
  \/ middlewareClientInfo

SpecEdge == Init /\ [][NextEdge]_vars

\* ---------------------------------------------------------------- claims
\* The lines of a text: the pieces between single newlines.
RECURSIVE LinesOf(_)
LinesOf(s) ==
  IF \A k \in 1..Len(s) : s[k] # NL THEN <<s>>
  ELSE LET k == CHOOSE j \in 1..Len(s) : s[j] = NL /\ \A i \in 1..(j - 1) : s[i] # NL
       IN <<SubSeq(s, 1, k - 1)>> \o LinesOf(SubSeq(s, k + 1, Len(s)))

\* A line without the white space around it.
Strip(s) ==
  LET ink == {k \in 1..Len(s) : s[k] \notin {" ", "\t", NL}}
  IN IF ink = {} THEN <<>>
     ELSE SubSeq(s, CHOOSE k \in ink : \A j \in ink : k <= j,
                    CHOOSE k \in ink : \A j \in ink : k >= j)

\* The non-empty trimmed lines of a text, in order.
ExpectedNames(text) ==
  LET ls == LinesOf(text)
  IN SelectSeq([k \in 1..Len(ls) |-> Strip(ls[k])], LAMBDA x : x # <<>>)

\* The names whose lookup was answered with one of `answers`, in input order.
RECURSIVE Pick(_, _, _)
Pick(names, results, answers) ==
  IF names = <<>> \/ results = <<>> THEN <<>>
  ELSE (IF Head(results) \in answers THEN <<Head(names)>> ELSE <<>>)
         \o Pick(Tail(names), Tail(results), answers)

\* The coordinate <<lon, lat>> the geocoder has for a name.
ExpectedCoord(name) == IF name = <<"a">> THEN <<2, 48>> ELSE <<74, -3>>

\* The batch the last operation ended, if it ended one after its loop.
BatchEnded == last.op = "lookupSettled" /\ last.rec.pc = "done"

\* C1: right after the replace of a batch in which a name resolved, the Store
\* of the mounted view is exactly the waypoints of the resolved names in input
\* order, whatever the Store was; every name that failed has exactly one
\* notice, in input order, and no waypoint.
C1_ReplaceIsResolvedInOrder ==
  BatchEnded =>
    LET r == last.rec
        hits == Pick(r.names, r.results, {"hit"})
        fails == Pick(r.names, r.results, {"miss", "error"})
    IN /\ Len(r.results) = Len(r.names)
       /\ [k \in 1..Len(r.alerts) |-> r.alerts[k].name] = fails
       /\ (isMounted /\ hits # <<>>) =>
            waypoints = [k \in 1..Len(hits) |->
                           [name |-> hits[k], coord |-> ExpectedCoord(hits[k])]]

\* C1 witness: a batch of two names ended; the first had no result, the
\* second resolved; the Store holds the second name only.
C1_Witness ==
  /\ BatchEnded
  /\ isMounted
  /\ last.rec.results = <<"miss", "hit">>
  /\ Len(waypoints) = 1
  /\ waypoints[1].name = <<"b">>
  /\ Len(last.rec.alerts) = 1

\* C2: a step of a batch changes the Store, or stores at all, only when it
\* ends the batch after the lookup of its last name, and then once; a batch
\* that has not ended has stored nothing.
C2_SingleReplaceAtEnd ==
  [][\A b \in 1..MaxBatches :
       batches'[b] # batches[b] =>
         /\ batches'[b].writes = 0
         /\ last'.rec.writes <= 1
         /\ (waypoints' # waypoints \/ last'.rec.writes > 0) =>
              /\ batches[b].pc = "fetch"
              /\ batches[b].idx = Len(batches[b].names)
              /\ batches'[b] = Returned
              /\ Len(last'.rec.results) = Len(batches[b].names)
              /\ last'.rec.writes = 1]_vars

\* C2 witness: a batch of two names stored its result, both of them, once.
C2_Witness ==
  /\ BatchEnded
  /\ isMounted
  /\ last.rec.writes = 1
  /\ Len(last.rec.names) = 2
  /\ Len(waypoints) = 2

\* The batches that have been started and what each has issued.
Started == {batches[b] : b \in {c \in 1..MaxBatches : batches[c].pc = "fetch"}}
             \cup (IF last.rec.pc = "done" THEN {last.rec} ELSE {})

\* C3: a batch has issued lookups for the non-empty trimmed lines of its
\* text, one each, in input order; while it is suspended all lookups but the
\* last issued one have completed, and when it has ended all have.
C3_OneLookupPerNameInOrder ==
  \A r \in Started :
    LET want == ExpectedNames(r.text)
    IN /\ Len(r.issued) <= Len(want)
       /\ r.issued = SubSeq(want, 1, Len(r.issued))
       /\ r.pc = "fetch" => Len(r.results) = Len(r.issued) - 1
       /\ r.pc = "done" => r.issued = want /\ Len(r.results) = Len(want)

\* C3 witness: a batch on a text with a blank line has ended after two
\* lookups, the two names in input order.
C3_Witness ==
  /\ BatchEnded
  /\ last.rec.text = <<NL, "a", NL, NL, " ", "b", " ">>
  /\ last.rec.issued = << <<"a">>, <<"b">> >>

\* The batches that are suspended on a lookup.
InFlight == {b \in 1..MaxBatches : batches[b].pc = "fetch"}

\* C4: at most one lookup is in flight.
C4_AtMostOneLookupInFlight == Cardinality(InFlight) <= 1

\* C5: Geocode on a text without a name surfaces one notice, issues no
\* lookup and starts no batch, and leaves the Store and the map view as
\* they were.
C5_EmptyInputFailsFast ==
  [][\A b \in 1..MaxBatches :
       (geocodeScenes(b) /\ ExpectedNames(sceneText) = <<>>) =>
         /\ last'.rec.pc = "done"
         /\ Len(last'.rec.alerts) = 1
         /\ last'.rec.alerts[1].kind = "empty"
         /\ last'.rec.issued = <<>>
         /\ batches'[b].pc # "fetch"
         /\ UNCHANGED <<waypoints, markersRef, routeData, fitBoundsArg, mapRef,
                        renderPending>>]_vars

\* C5 witness: Geocode ran on a text of white space only, with a Store that
\* is not empty.
C5_Witness ==
  /\ last.op = "geocodeScenes"
  /\ sceneText = <<" ", NL, "\t">>
  /\ last.rec.pc = "done"
  /\ Len(last.rec.alerts) = 1
  /\ Len(waypoints) > 0

C7_MoveIsItsOwnInverse ==
  \A i \in 0..(Len(waypoints) - 1), d \in {-1, 1} :
    (i + d >= 0 /\ i + d < Len(waypoints)) =>
      /\ MoveUpdater(MoveUpdater(waypoints, i, d), i + d, -d) = waypoints
      /\ MoveUpdater(waypoints, i, d)[i + d + 1] = waypoints[i + 1]

\* C7 witness: an in-bounds move has exchanged two different waypoints.
C7_Witness ==
  /\ last.op = "moveWaypoint"
  /\ last.a < Len(waypoints)
  /\ last.a + last.b >= 0
  /\ last.a + last.b < Len(waypoints)
  /\ waypoints[last.a + 1] # waypoints[last.a + last.b + 1]
  /\ MoveUpdater(waypoints, last.a + last.b, -last.b) # waypoints

\* C8: a map click on a Store of length n gives a Store of length n + 1
\* whose first n elements are unchanged and whose last element is named
\* "Waypoint n+1" at the clicked coordinate.
C8_ClickAppends ==
  [][\A c \in ClickCoords :
       mapClick(c, MaxStoreClicks) =>
         /\ Len(waypoints') = Len(waypoints) + 1
         /\ SubSeq(waypoints', 1, Len(waypoints)) = waypoints
         /\ waypoints'[Len(waypoints')] =
              [name |-> WaypointPrefix \o NumberToString(Len(waypoints) + 1),
               coord |-> c]]_vars

\* C8 witness: three clicks at different coordinates were taken before any
\* commit; the Store holds them in click order.
C8_Witness ==
  /\ last.op = "mapClick"
  /\ listLen = 0
  /\ clicks = 3
  /\ Len(waypoints) = 3
  /\ waypoints[1].name = WaypointPrefix \o <<"1">>
  /\ waypoints[3].name = WaypointPrefix \o <<"3">>
  /\ waypoints[1].coord # waypoints[2].coord

\* C9: Clear leaves the Store empty, and the commit of an empty Store leaves
\* no marker and an empty route line.
C9_ClearEmptiesStoreAndMap ==
  /\ last.op = "clearRoute" => Len(waypoints) = 0
  /\ (last.op = "render" /\ isMounted /\ waypoints = <<>>) =>
       markersRef = <<>> /\ routeData = <<>>

\* C9 witness: the commit of an empty Store has removed markers from a
\* loaded map.
C9_Witness ==
  /\ last.op = "render"
  /\ isMounted
  /\ waypoints = <<>>
  /\ routeSource
  /\ last.a > 0

\* C10: when the commit of the current Store has completed, there are no more
\* markers than waypoints.
C10_MarkersWithinStore ==
  (isMounted /\ ~renderPending) => Len(markersRef) <= Len(waypoints)

\* C10 witness: a commit has replaced two markers by one, after a geocode
\* replace.
C10_Witness ==
  /\ last.op = "render"
  /\ isMounted
  /\ last.a = 2
  /\ Len(markersRef) = 1
  /\ Len(waypoints) = 1
  /\ waypoints[1].name = <<"a">>

\* The map view is Ready: the map exists and its 'load' handler has added
\* the route source.
Ready == isMounted /\ mapRef = "map" /\ routeSource

\* C11: once the map view is Ready and no commit is pending, the markers and
\* the route line are those of the whole current Store, also when the Store
\* changed while the import was in flight or before 'load' fired.
C11_ReadyReflectsStore ==
  (Ready /\ ~renderPending) =>
    /\ markersRef = RenderMarkers(waypoints)
    /\ routeData = RouteCoords(waypoints)

\* C12: on a created map the render configuration is without terrain before
\* any toggle and again after two toggles, with the Terrain Flag off.
C12_ToggleTwiceRestores ==
  mapRef = "map" =>
    /\ toggles = 0 => mapTerrain = NoTerrain
    /\ toggles = 2 => mapTerrain = NoTerrain /\ ~terrainEnabled

\* C19: wherever a map exists, elevation is attached to it exactly when the
\* Terrain Flag is true.
C19_TerrainFollowsFlag ==
  mapRef = "map" => ((mapTerrain # NoTerrain) <=> terrainEnabled)

\* The state of the view: the Store, the scene text, the Terrain Flag, the
\* rendered list, the map and what is drawn on it.
viewState ==
  <<sceneText, waypoints, terrainEnabled, listLen, renderPending, maplibreRef,
    mapRef, mapTerrain, routeSource, routeData, markersRef, fitBoundsArg>>

IsNumber(x) == ToString(x) # ToString("NaN")

\* A coordinate <<lon, lat>> of the globe.
ValidCoord(c) ==
  /\ IsNumber(c[1]) /\ c[1] >= -180 /\ c[1] <= 180
  /\ IsNumber(c[2]) /\ c[2] >= -90 /\ c[2] <= 90

\* C14: every waypoint of the Store has a longitude in [-180, 180] and a
\* latitude in [-90, 90].
C14_CoordinatesInRange ==
  \A k \in 1..Len(waypoints) :
    "coord" \in DOMAIN waypoints[k] => ValidCoord(waypoints[k].coord)

\* The least and the greatest element of a set of numbers.
Min(S) == CHOOSE x \in S : \A y \in S : x <= y
Max(S) == CHOOSE x \in S : \A y \in S : x >= y

\* The longitudes and the latitudes of a list of waypoints.
Lons(wps) == {wps[k].coord[1] : k \in 1..Len(wps)}
Lats(wps) == {wps[k].coord[2] : k \in 1..Len(wps)}

\* The box <<<<min lon, min lat>>, <<max lon, max lat>>>> of a list.
ExpectedBox(wps) ==
  <<<<Min(Lons(wps)), Min(Lats(wps))>>, <<Max(Lons(wps)), Max(Lats(wps))>>>>

\* The coordinates of the self-check: (0, 0), (5, 10), (-2, 3).
SelfCheckSample ==
  <<[name |-> <<"A">>, coord |-> <<0, 0>>], [name |-> <<"B">>, coord |-> <<5, 10>>],
    [name |-> <<"C">>, coord |-> <<-2, 3>>]>>

\* C15: a batch that ends with a result on an existing map has passed to
\* fitBounds the corners (min lon, min lat) and (max lon, max lat) of all its
\* coordinates, each extremum on its own; one coordinate gives a box of no
\* area; the self-check sample gives (-2, 0), (5, 10).
C15_FitBoundsIsBoundingBox ==
  /\ (BatchEnded /\ last.rec.writes = 1 /\ mapRef = "map") =>
       /\ fitBoundsArg = ExpectedBox(last.rec.newWaypoints)
       /\ Len(last.rec.newWaypoints) = 1 => fitBoundsArg[1] = fitBoundsArg[2]
  /\ BoundingBox(SelfCheckSample) = <<<<-2, 0>>, <<5, 10>>>>

\* C15 witness: both names resolved on an existing map; the corners are those
\* of neither coordinate.
C15_Witness ==
  /\ BatchEnded
  /\ last.rec.writes = 1
  /\ mapRef = "map"
  /\ Len(last.rec.newWaypoints) = 2
  /\ fitBoundsArg = <<<<2, -3>>, <<74, 48>>>>

AllFailed(rec) ==
  /\ Len(rec.results) = Len(rec.names)
  /\ \A k \in 1..Len(rec.results) : rec.results[k] # "hit"

\* C17: the step that ends a batch in which every name failed stores nothing
\* and fits no bounds: the Store, the markers, the route line, the fitted
\* bounds and the pending commit are what they were.
C17_AllFailedChangesNothing ==
  [][(last'.op = "lookupSettled" /\ last'.rec.pc = "done" /\ AllFailed(last'.rec)) =>
       /\ last'.rec.writes = 0
       /\ UNCHANGED <<waypoints, markersRef, routeData, fitBoundsArg,
                      renderPending, listLen>>]_vars

\* C17 witness: a batch of two names, both failed, has ended on a map that
\* shows a marker of a Store of one waypoint.
C17_Witness ==
  /\ BatchEnded
  /\ AllFailed(last.rec)
  /\ Len(last.rec.names) = 2
  /\ Len(last.rec.alerts) = 2
  /\ mapRef = "map"
  /\ Len(waypoints) = 1
  /\ Len(markersRef) = 1

\* C18: wherever a map exists and the commit of the latest Store change has
\* completed, there is one marker per waypoint, at its coordinate and
\* labelled with its 1-based position, and the vertices of the route line are
\* the waypoint coordinates in Store order.
C18_RenderIsProjectionOfStore ==
  (isMounted /\ mapRef = "map" /\ ~renderPending) =>
    /\ Len(markersRef) = Len(waypoints)
    /\ \A k \in 1..Len(waypoints) :
         /\ markersRef[k].coord = waypoints[k].coord
         /\ markersRef[k].label = NumberToString(k)
    /\ routeData = [k \in 1..Len(waypoints) |-> waypoints[k].coord]

\* How often x occurs in a list.
Count(seq, x) == Cardinality({k \in 1..Len(seq) : seq[k] = x})

\* Two lists with the same elements, each as often.
SameMultiset(s, t) ==
  /\ Len(s) = Len(t)
  /\ \A k \in 1..Len(s) : Count(s, s[k]) = Count(t, s[k])

\* s is the beginning of t.
IsPrefix(s, t) == Len(s) <= Len(t) /\ SubSeq(t, 1, Len(s)) = s

\* C20: a move with index and index + direction in bounds exchanges the two
\* elements and leaves every other position, the length and the multiset as
\* they were; a step that is no move keeps the waypoints that remain in
\* their order (the Store is extended at the end, or emptied).
C20_MoveSwapsOthersKeepOrder ==
  [][/\ \A index \in 0..(MaxStoreClicks + 1), direction \in {-1, 1} :
          (/\ moveWaypoint(index, direction)
           /\ index < Len(waypoints)
           /\ index + direction >= 0
           /\ index + direction < Len(waypoints)) =>
            /\ Len(waypoints') = Len(waypoints)
            /\ waypoints'[index + 1] = waypoints[index + direction + 1]
            /\ waypoints'[index + direction + 1] = waypoints[index + 1]
            /\ \A k \in 1..Len(waypoints) :
                 k \notin {index + 1, index + direction + 1} =>
                   waypoints'[k] = waypoints[k]
            /\ SameMultiset(waypoints, waypoints')
     /\ last'.op # "moveWaypoint" =>
          (IsPrefix(waypoints, waypoints') \/ waypoints' = <<>>)]_vars

\* C20 witness: on a Store of three clicked waypoints the second one has been
\* moved down; the first one is where it was.
C20_Witness ==
  /\ last.op = "moveWaypoint"
  /\ last.a = 1
  /\ last.b = 1
  /\ Len(waypoints) = 3
  /\ waypoints[1].name = WaypointPrefix \o <<"1">>
  /\ waypoints[2].name = WaypointPrefix \o <<"3">>
  /\ waypoints[3].name = WaypointPrefix \o <<"2">>

====
